---------------------------- MODULE Spec2Model ----------------------------
(***************************************************************************)
(* Admin dashboard of the ticket-booking platform.                         *)
(*                                                                         *)
(* Two parts of the program are modelled:                                  *)
(*   - the response normalizers: the private request method of the user,   *)
(*     event, payment and reservation service clients and the              *)
(*     authenticatedRequest helper of services/api/admin.ts, together with *)
(*     the two storage slots that hold the adminToken;                     *)
(*   - the generic DataTable component (sort, page and search state).      *)
(*                                                                         *)
(* JavaScript values are modelled as strings: the booleans are "true" and  *)
(* "false", an absent field (undefined) is Undefined, null is Null.        *)
(***************************************************************************)
EXTENDS Integers, Sequences, FiniteSets, TLC

VARIABLES
    localToken,     \* localStorage.getItem('adminToken')
    sessionToken,   \* sessionStorage.getItem('adminToken')
    pc,             \* position of the request in flight: idle, fetching, reading, done
    client,         \* which client issued the request in flight
    sentAuth,       \* Authorization header of the outgoing call
    resp,           \* what the transport answered
    outcome,        \* how request ended: returned value or thrown error
    toasts,         \* toast.error messages raised by the request, in order
    data,           \* DataTable prop: the record list
    currentPage,    \* DataTable state
    sortColumn,     \* DataTable state
    sortDirection,  \* DataTable state
    searchQuery,    \* DataTable state
    isLoading,      \* DataTable prop
    onSearch,       \* DataTable prop: whether the parent supplied the callback
    onSearchCalls,  \* arguments of the onSearch calls of the handler that ran last
    lastOp,         \* the DataTable handler that ran last, with its argument
    events,         \* useAdminEvents state: the record list
    hookIsLoading,  \* useAdminEvents state: isLoading
    hookError,      \* useAdminEvents state: error
    filters,        \* useAdminEvents state: filters
    pending,        \* the fetchEvents calls awaiting adminApi.getEvents
    issued,         \* how many fetchEvents calls have been started
    completed,      \* the fetchEvents calls that have settled, in that order
    lastHookOp,     \* the step of the hook that ran last
    hookResult,     \* how the createEvent, updateEvent or deleteEvent call that ended last ended
    mutations,      \* how many createEvent, updateEvent and deleteEvent calls have been made
    calls,          \* the createEvent, updateEvent and deleteEvent calls awaiting adminApi
    admin,          \* useAdminAuth state: admin
    authIsLoading,  \* useAdminAuth state: isLoading
    authPc,         \* position of checkAuth: mounted, awaiting, done
    lastAuthOp,     \* the step of useAdminAuth or AdminSignIn that ran last
    form,           \* AdminSignIn state: isLoading, rememberMe, error
    listCall,       \* the list getter of adminApi called last, with its filter and what its service call gave
    listResult      \* how that call of the getter ended

reqVars == <<localToken, sessionToken, pc, client, sentAuth, resp, outcome, toasts>>
tableVars == <<data, currentPage, sortColumn, sortDirection, searchQuery, isLoading,
               onSearch, onSearchCalls, lastOp>>
hookVars == <<events, hookIsLoading, hookError, filters, pending, issued, completed,
              lastHookOp, hookResult, mutations, calls>>
vars == <<localToken, sessionToken, pc, client, sentAuth, resp, outcome, toasts,
          data, currentPage, sortColumn, sortDirection, searchQuery, isLoading,
          onSearch, onSearchCalls, lastOp,
          events, hookIsLoading, hookError, filters, pending, issued, completed,
          lastHookOp, hookResult, mutations, calls, admin, authIsLoading, authPc, lastAuthOp,
          form, listCall, listResult>>
authVars == <<admin, authIsLoading, authPc, lastAuthOp, form>>
listVars == <<listCall, listResult>>

---------------------------------------------------------------------------
(* JavaScript values *)

Undefined == "undefined"
Null == "null"

\* JavaScript truthiness of the values the model uses.
Truthy(v) == v \notin {Undefined, Null, "", "false"}

\* a || b
Or(a, b) == IF Truthy(a) THEN a ELSE b

\* String(b) of a boolean
Bool(b) == IF b THEN "true" ELSE "false"

---------------------------------------------------------------------------
(* The inputs of a request *)

Clients == {"user", "event", "payment", "reservation", "admin"}

\* What a storage slot can hold at start-up: nothing (getItem gives null), an
\* empty string, or a token written by an earlier sign-in.
Tokens == {"tokA", "tokB"}
TokenValues == {Null, ""} \cup Tokens

\* message.includes(needle), over the messages of the model: those that
\* contain 'Failed to fetch' and the one that contains 'NetworkError'.
Includes(message, needle) ==
    CASE needle = "Failed to fetch" ->
             message \in {"Failed to fetch", "TypeError: Failed to fetch",
                          "Unexpected token 'F', \"Failed to fetch\" is not valid JSON"}
      [] needle = "NetworkError" -> message = "NetworkError when attempting to fetch resource."
      [] OTHER -> FALSE

\* content-type values that contain 'application/json'
JsonContentTypes == {"application/json", "application/json;charset=UTF-8"}
ContentTypes == {Null, "text/plain", "application/json;charset=UTF-8"}

\* contentType && contentType.includes('application/json')
IsJson(contentType) == Truthy(contentType) /\ contentType \in JsonContentTypes

\* A thrown value: an Error with a message, or something that is no Error.
Err(m) == [isError |-> TRUE, message |-> m]
NonError == [isError |-> FALSE, message |-> Undefined]
NoThrow == [isError |-> FALSE, message |-> Null]

\* What fetch can reject with.
FetchRejections ==
    {Err("Failed to fetch"), Err("NetworkError when attempting to fetch resource."),
     Err("The user aborted a request."), Err(""), NonError}

\* The texts of the bodies that are no JSON, and the message of the
\* SyntaxError response.json() rejects with on each of them.
UnparsableTexts == {"<html>", "", "Failed to fetch"}
SyntaxErrorMessage(text) ==
    CASE text = "" -> "Unexpected end of JSON input"
      [] text = "<html>" -> "Unexpected token '<', \"<html>\" is not valid JSON"
      [] text = "Failed to fetch" -> "Unexpected token 'F', \"Failed to fetch\" is not valid JSON"

\* TypeError of reading a property of null
NullRead(prop) == Err("Cannot read properties of null (reading '" \o prop \o "')")

\* A JavaScript value as request handles it: a parsed body or a returned
\* envelope.  kind is "object", "null" (the JSON text null) or "syntaxError"
\* (response.json() rejects).
Obj(s, m, e, d, c, k) ==
    [kind |-> "object", success |-> s, message |-> m, error |-> e, data |-> d,
     content |-> c, code |-> k]
NullValue ==
    [kind |-> "null", success |-> Undefined, message |-> Undefined,
     error |-> Undefined, data |-> Undefined, content |-> Undefined,
     code |-> Undefined]
Unparsable ==
    [kind |-> "syntaxError", success |-> Undefined, message |-> Undefined,
     error |-> Undefined, data |-> Undefined, content |-> Undefined,
     code |-> Undefined]

\* Bodies in the canonical shape {success, message, data, error}, bodies in
\* the alternate shape {code, content, message}, the text null, and a text
\* that is no JSON.
JsonBodies ==
    {Obj(s, m, e, d, Undefined, Undefined) :
        s \in {Undefined, "true", "false"}, m \in {Undefined, "", "ok"},
        e \in {Undefined, "err"}, d \in {Undefined, "d1"}}
    \cup {Obj(Undefined, m, e, Undefined, "c1", k) :
            m \in {Undefined, "", "ok"}, e \in {Undefined, "err"},
            k \in {Undefined, "00", "01"}}
    \cup {NullValue, Unparsable}

\* HTTP status with its reason phrase (empty over HTTP/2).
StatusLines ==
    {[status |-> 200, statusText |-> "OK"],
     [status |-> 404, statusText |-> "Not Found"],
     [status |-> 500, statusText |-> "Internal Server Error"],
     [status |-> 503, statusText |-> ""]}

\* response.ok
Ok(r) == r.status >= 200 /\ r.status <= 299

Rejected(e) ==
    [kind |-> "reject", thrown |-> e, status |-> 0, statusText |-> "",
     contentType |-> Null, text |-> "", json |-> Unparsable]
Response(sl, ct, t, j) ==
    [kind |-> "response", thrown |-> NoThrow, status |-> sl.status,
     statusText |-> sl.statusText, contentType |-> ct, text |-> t, json |-> j]
NoResponse ==
    [kind |-> "none", thrown |-> NoThrow, status |-> 0, statusText |-> "",
     contentType |-> Null, text |-> "", json |-> Unparsable]

\* Every answer of the transport: fetch rejects, or a response with a text
\* body under a non-JSON content-type, or one with a JSON content-type.
TransportOutcomes ==
    {Rejected(e) : e \in FetchRejections}
    \cup {Response(sl, ct, t, Unparsable) :
            sl \in StatusLines, ct \in ContentTypes \ JsonContentTypes,
            t \in {"", "boom", "Failed to fetch"}}
    \cup {Response(sl, ct, "", j) :
            sl \in StatusLines, ct \in ContentTypes \cap JsonContentTypes,
            j \in JsonBodies \ {Unparsable}}
    \cup {Response(sl, ct, t, Unparsable) :
            sl \in StatusLines, ct \in ContentTypes \cap JsonContentTypes,
            t \in UnparsableTexts}

---------------------------------------------------------------------------
(* How a call of request ends *)

NoValue ==
    [kind |-> "none", success |-> Undefined, message |-> Undefined,
     error |-> Undefined, data |-> Undefined, content |-> Undefined,
     code |-> Undefined]

\* return v, after raising the notifications ts
Returned(v, ts) == [kind |-> "returned", val |-> v, thrown |-> NoThrow, toasts |-> ts]
\* throw e
Threw(e) == [kind |-> "threw", val |-> NoValue, thrown |-> e, toasts |-> <<>>]
NoOutcome == [kind |-> "none", val |-> NoValue, thrown |-> NoThrow, toasts |-> <<>>]

\* { success: false, message: msg, error: msg, data: d }
Fail(msg, d) == Obj("false", msg, msg, d, Undefined, Undefined)

InvalidFormat == "Invalid response format from server"
NetworkErrorText == "Network error. Please check your connection and API server."
AnErrorOccurred == "An error occurred"
UnexpectedError == "An unexpected error occurred"

\* `HTTP ${response.status}: ${response.statusText}`
StatusLine(r) == "HTTP " \o ToString(r.status) \o ": " \o r.statusText

\* `Request failed with status ${response.status}`
RequestFailed(r) == "Request failed with status " \o ToString(r.status)

\* data.message || data.error || `Request failed with status ...`
ErrorMsg(d, r) == Or(Or(d.message, d.error), RequestFailed(r))

\* The catch block of the clients that return: user, payment, reservation
\* and authenticatedRequest share it word for word.
CatchReturn(e) ==
    IF e.isError
    THEN IF Includes(e.message, "Failed to fetch") \/ Includes(e.message, "NetworkError")
         THEN Returned(Fail(NetworkErrorText, Undefined), <<NetworkErrorText>>)
         ELSE Returned(Fail(Or(e.message, AnErrorOccurred), Undefined),
                       <<Or(e.message, AnErrorOccurred)>>)
    ELSE Returned(Fail(UnexpectedError, Undefined), <<UnexpectedError>>)

\* The catch block of the event client: it throws again.
CatchRethrow(e) ==
    IF e.isError
    THEN IF Includes(e.message, "Failed to fetch") \/ Includes(e.message, "NetworkError")
         THEN Threw(Err(NetworkErrorText))
         ELSE Threw(e)
    ELSE Threw(Err(UnexpectedError))

\* The { code, content, message } body converted to the canonical shape.
Remap(raw, r) ==
    Obj(Bool(raw.code = "00" \/ Ok(r)),
        Or(raw.message, ""),
        IF raw.code # "00" THEN raw.message ELSE Undefined,
        raw.content, Undefined, Undefined)

\* UserServiceAPI.request: the try block.
UserTry(r) ==
    IF r.kind = "reject" THEN Threw(r.thrown)
    ELSE IF IsJson(r.contentType)
    THEN \* the inner try holds response.json() and a console.log that reads
         \* data.success: both a parse failure and a null body end in its catch
         IF r.json.kind \in {"syntaxError", "null"}
         THEN Returned(Fail(InvalidFormat, Undefined), <<InvalidFormat>>)
         ELSE IF ~Ok(r)
         THEN Returned(Fail(ErrorMsg(r.json, r), r.json.data), <<ErrorMsg(r.json, r)>>)
         ELSE Returned(r.json, <<>>)
    ELSE Returned(Fail(Or(r.text, StatusLine(r)), Undefined), <<Or(r.text, StatusLine(r))>>)

UserRequest(r) ==
    LET t == UserTry(r) IN IF t.kind = "threw" THEN CatchReturn(t.thrown) ELSE t

\* EventServiceAPI.request: the try block.
EventTry(r) ==
    IF r.kind = "reject" THEN Threw(r.thrown)
    ELSE IF IsJson(r.contentType)
    THEN IF r.json.kind = "syntaxError" THEN Threw(Err(SyntaxErrorMessage(r.text)))
         ELSE IF ~Ok(r)
         THEN IF r.json.kind = "null" THEN Threw(NullRead("message"))
              ELSE Threw(Err(ErrorMsg(r.json, r)))
         ELSE Returned(r.json, <<>>)
    ELSE Threw(Err(Or(r.text, StatusLine(r))))

EventRequest(r) ==
    LET t == EventTry(r) IN IF t.kind = "threw" THEN CatchRethrow(t.thrown) ELSE t

\* authenticatedRequest: the try block.
AuthenticatedTry(r) ==
    IF r.kind = "reject" THEN Threw(r.thrown)
    ELSE IF IsJson(r.contentType)
    THEN IF r.json.kind = "syntaxError" THEN Threw(Err(SyntaxErrorMessage(r.text)))
         ELSE IF ~Ok(r)
         THEN IF r.json.kind = "null" THEN Threw(NullRead("message"))
              ELSE Returned(Fail(ErrorMsg(r.json, r), r.json.data), <<ErrorMsg(r.json, r)>>)
         ELSE Returned(r.json, <<>>)
    ELSE Returned(Fail(Or(r.text, StatusLine(r)), Undefined), <<Or(r.text, StatusLine(r))>>)

authenticatedRequest(r) ==
    LET t == AuthenticatedTry(r) IN IF t.kind = "threw" THEN CatchReturn(t.thrown) ELSE t

\* PaymentServiceAPI.request: the try block.
PaymentTry(r) ==
    IF r.kind = "reject" THEN Threw(r.thrown)
    ELSE IF IsJson(r.contentType)
    THEN IF r.json.kind = "syntaxError"
         THEN Returned(Fail(InvalidFormat, Undefined), <<InvalidFormat>>)
         ELSE IF r.json.kind = "null" THEN Threw(NullRead("content"))
         ELSE LET d == IF r.json.content # Undefined THEN Remap(r.json, r) ELSE r.json
              IN IF ~Ok(r) \/ d.success = "false"
                 THEN Returned(Fail(ErrorMsg(d, r), d.data), <<ErrorMsg(d, r)>>)
                 ELSE Returned(d, <<>>)
    ELSE Returned(Fail(Or(r.text, StatusLine(r)), Undefined), <<Or(r.text, StatusLine(r))>>)

PaymentRequest(r) ==
    LET t == PaymentTry(r) IN IF t.kind = "threw" THEN CatchReturn(t.thrown) ELSE t

\* ReservationServiceAPI.request: the try block.
ReservationTry(r) ==
    IF r.kind = "reject" THEN Threw(r.thrown)
    ELSE IF IsJson(r.contentType)
    THEN IF r.json.kind = "syntaxError"
         THEN Returned(Fail(InvalidFormat, Undefined), <<InvalidFormat>>)
         ELSE IF r.json.kind = "null" THEN Threw(NullRead("content"))
         ELSE LET d == IF r.json.content # Undefined THEN Remap(r.json, r) ELSE r.json
              IN IF ~Ok(r)
                 THEN Returned(Fail(ErrorMsg(d, r), d.data), <<ErrorMsg(d, r)>>)
                 ELSE Returned(d, <<>>)
    ELSE IF Ok(r)
         THEN Returned(Obj("true", r.text, Undefined, r.text, Undefined, Undefined), <<>>)
         ELSE Returned(Fail(Or(r.text, StatusLine(r)), Undefined),
                       <<Or(r.text, StatusLine(r))>>)

ReservationRequest(r) ==
    LET t == ReservationTry(r) IN IF t.kind = "threw" THEN CatchReturn(t.thrown) ELSE t

\* The request of client c on the transport's answer r.
Request(c, r) ==
    CASE c = "user" -> UserRequest(r)
      [] c = "event" -> EventRequest(r)
      [] c = "payment" -> PaymentRequest(r)
      [] c = "reservation" -> ReservationRequest(r)
      [] c = "admin" -> authenticatedRequest(r)

\* The slots read in the other order.
TokenSessionFirst(ls, ss) == Or(ss, ls)

\* localStorage.getItem('adminToken') || sessionStorage.getItem('adminToken')
Token(ls, ss) == Or(ls, ss)

\* The Authorization header of the call: ...(token && { Authorization: `Bearer ${token}` }).
\* No caller of request passes headers of its own.
NoHeader == Undefined
AuthorizationHeader(token) == IF Truthy(token) THEN "Bearer " \o token ELSE NoHeader

---------------------------------------------------------------------------
(* The DataTable component *)

\* const [itemsPerPage] = useState(10)
ItemsPerPage == 10

\* The record lists: every list of at most MaxLen records, and long lists
\* that fill one page, start a second and start a third.
MaxLen == 2
Ids == {1, 2}
Names == {"A", "B"}
ColumnKeys == {"id", "name"}
Records == [id : Ids, name : Names]

\* A list of n records whose ids and names are neither sorted nor distinct.
LongList(n) == [i \in 1..n |-> [id |-> ((i * 7) % 5) + 1,
                                name |-> IF i % 3 = 0 THEN "A" ELSE "B"]]

\* A list of n records with n different ids, not in order.
DistinctList(n) == [i \in 1..n |-> [id |-> ((i * 7) % n) + 1,
                                    name |-> IF i % 2 = 0 THEN "A" ELSE "B"]]

ShortLists == UNION {[1..n -> Records] : n \in 0..MaxLen}
DataSets ==
    ShortLists
    \cup {LongList(n) : n \in {ItemsPerPage, ItemsPerPage + 1, 2 * ItemsPerPage + 5,
                               3 * ItemsPerPage + 1}}
    \cup {DistinctList(ItemsPerPage + 2)}

SearchTexts == {"", "a", "ab"}

\* The order JavaScript's < and > give the names.
NameRank(x) == IF x = "A" THEN 1 ELSE 2

\* aValue < bValue on the values of column col
ValueLess(col, x, y) == IF col = "id" THEN x < y ELSE NameRank(x) < NameRank(y)

\* The comparator without its look at the direction.
CompareAscending(a, b, col, dir) ==
    IF col = Null THEN 0
    ELSE IF ValueLess(col, a[col], b[col]) THEN -1
    ELSE IF ValueLess(col, b[col], a[col]) THEN 1
    ELSE 0

\* The comparator handed to sort.
Compare(a, b, col, dir) ==
    IF col = Null THEN 0
    ELSE IF ValueLess(col, a[col], b[col]) THEN (IF dir = "asc" THEN -1 ELSE 1)
    ELSE IF ValueLess(col, b[col], a[col]) THEN (IF dir = "asc" THEN 1 ELSE -1)
    ELSE 0

\* x put at the end of s without a comparison.
InsertLast(x, s, col, dir) == Append(s, x)

\* x put into the sorted s in front of the elements it ties with.
RECURSIVE InsertBeforeEqual(_, _, _, _)
InsertBeforeEqual(x, s, col, dir) ==
    IF s = <<>> THEN <<x>>
    ELSE IF Compare(s[Len(s)], x, col, dir) < 0 THEN Append(s, x)
    ELSE Append(InsertBeforeEqual(x, SubSeq(s, 1, Len(s) - 1), col, dir), s[Len(s)])

\* x put into the sorted s behind every element that is not after it
\* (Array.prototype.sort is stable).
RECURSIVE InsertSorted(_, _, _, _)
InsertSorted(x, s, col, dir) ==
    IF s = <<>> THEN <<x>>
    ELSE IF Compare(s[Len(s)], x, col, dir) <= 0 THEN Append(s, x)
    ELSE Append(InsertSorted(x, SubSeq(s, 1, Len(s) - 1), col, dir), s[Len(s)])

\* [...data].sort(comparator)
RECURSIVE SortedData(_, _, _)
SortedData(d, col, dir) ==
    IF d = <<>> THEN <<>>
    ELSE InsertSorted(d[Len(d)], SortedData(SubSeq(d, 1, Len(d) - 1), col, dir), col, dir)

\* Math.ceil(sortedData.length / itemsPerPage)
TotalPages(d) == (Len(d) + ItemsPerPage - 1) \div ItemsPerPage

\* startIndex counted from page rather than page - 1.
StartIndexOffByOne(page) == page * ItemsPerPage

StartIndex(page) == (page - 1) * ItemsPerPage
EndIndex(page) == StartIndex(page) + ItemsPerPage

Min(a, b) == IF a < b THEN a ELSE b

\* A slice that leaves out the last of its rows.
SliceShort(s, from, to) == SubSeq(s, from + 1, Min(to, Len(s)) - 1)

\* s.slice(from, to), for 0 <= from
Slice(s, from, to) == SubSeq(s, from + 1, Min(to, Len(s)))

\* sortedData.slice(startIndex, endIndex)
PaginatedData(d, col, dir, page) ==
    Slice(SortedData(d, col, dir), StartIndex(page), EndIndex(page))

\* The pagination controls are rendered.
PaginationShown ==
    ~isLoading /\ Len(PaginatedData(data, sortColumn, sortDirection, currentPage)) > 0

\* emptyMessage = 'No data available'
DefaultEmptyMessage == "No data available"
EmptyMessageProps == {Undefined, "No events found"}
EmptyMessage(prop) == IF prop = Undefined THEN DefaultEmptyMessage ELSE prop

\* What a layout shows: the busy indicator, a message, or rows.
Busy == [busy |-> TRUE, message |-> Undefined, rows |-> <<>>]
Message(text) == [busy |-> FALSE, message |-> text, rows |-> <<>>]
Rows(items) == [busy |-> FALSE, message |-> Undefined, rows |-> items]

\* The card view with the test for an empty page put before isLoading.
MobileCardViewEmptyFirst(loading, items, prop) ==
    IF Len(items) = 0 THEN Message(EmptyMessage(prop))
    ELSE IF loading THEN Busy
    ELSE Rows(items)

\* The mobile card view of the rows of the current page.
MobileCardView(loading, items, prop) ==
    IF loading THEN Busy
    ELSE IF Len(items) = 0 THEN Message(EmptyMessage(prop))
    ELSE Rows(items)

\* The table body that shows the default message whatever the caller gave.
DesktopTableDefaultMessage(loading, items, prop) ==
    IF loading THEN Busy
    ELSE IF Len(items) = 0 THEN Message(DefaultEmptyMessage)
    ELSE Rows(items)

\* The body of the desktop table.
DesktopTable(loading, items, prop) ==
    IF loading THEN Busy
    ELSE IF Len(items) = 0 THEN Message(EmptyMessage(prop))
    ELSE Rows(items)

Op(name, arg) == [op |-> name, arg |-> arg]

\* handleSort without the reset of the direction on a new column.
handleSortKeepsDirection(columnKey, column, direction) ==
    IF column = columnKey
    THEN [column |-> column, direction |-> IF direction = "asc" THEN "desc" ELSE "asc"]
    ELSE [column |-> columnKey, direction |-> direction]

\* The sort state handleSort(columnKey) sets.
handleSort(columnKey, column, direction) ==
    IF column = columnKey
    THEN [column |-> column, direction |-> IF direction = "asc" THEN "desc" ELSE "asc"]
    ELSE [column |-> columnKey, direction |-> "asc"]

\* A click on a header that also goes back to the first page.
HandleSortResetsPage(columnKey) ==
    /\ sortColumn' = handleSort(columnKey, sortColumn, sortDirection).column
    /\ sortDirection' = handleSort(columnKey, sortColumn, sortDirection).direction
    /\ currentPage' = 1
    /\ lastOp' = Op("handleSort", columnKey)
    /\ onSearchCalls' = <<>>
    /\ UNCHANGED <<data, searchQuery, isLoading, onSearch>>

\* A click on the header of a sortable column.
HandleSort(columnKey) ==
    /\ sortColumn' = handleSort(columnKey, sortColumn, sortDirection).column
    /\ sortDirection' = handleSort(columnKey, sortColumn, sortDirection).direction
    /\ lastOp' = Op("handleSort", columnKey)
    /\ onSearchCalls' = <<>>
    /\ UNCHANGED <<data, currentPage, searchQuery, isLoading, onSearch>>

\* handleSearchChange without setCurrentPage(1).
HandleSearchChangeKeepsPage(value) ==
    /\ searchQuery' = value
    /\ onSearchCalls' = IF onSearch THEN <<value>> ELSE <<>>
    /\ lastOp' = Op("handleSearchChange", value)
    /\ UNCHANGED <<data, currentPage, sortColumn, sortDirection, isLoading, onSearch>>

\* handleSearchChange with a reset of the sort state added.
HandleSearchChangeResetsSort(value) ==
    /\ searchQuery' = value
    /\ currentPage' = 1
    /\ sortColumn' = Null
    /\ sortDirection' = "asc"
    /\ onSearchCalls' = IF onSearch THEN <<value>> ELSE <<>>
    /\ lastOp' = Op("handleSearchChange", value)
    /\ UNCHANGED <<data, isLoading, onSearch>>

\* Typing in the search box.
HandleSearchChange(value) ==
    /\ searchQuery' = value
    /\ currentPage' = 1
    /\ onSearchCalls' = IF onSearch THEN <<value>> ELSE <<>>
    /\ lastOp' = Op("handleSearchChange", value)
    /\ UNCHANGED <<data, sortColumn, sortDirection, isLoading, onSearch>>

FirstPage ==
    /\ PaginationShown
    /\ currentPage # 1
    /\ currentPage' = 1
    /\ lastOp' = Op("firstPage", "")
    /\ onSearchCalls' = <<>>
    /\ UNCHANGED <<data, sortColumn, sortDirection, searchQuery, isLoading, onSearch>>

PreviousPage ==
    /\ PaginationShown
    /\ currentPage # 1
    /\ currentPage' = currentPage - 1
    /\ lastOp' = Op("previousPage", "")
    /\ onSearchCalls' = <<>>
    /\ UNCHANGED <<data, sortColumn, sortDirection, searchQuery, isLoading, onSearch>>

\* The Next button without its disabled={currentPage === totalPages}.
NextPageNeverDisabled ==
    /\ PaginationShown
    /\ currentPage' = currentPage + 1
    /\ lastOp' = Op("nextPage", "")
    /\ onSearchCalls' = <<>>
    /\ UNCHANGED <<data, sortColumn, sortDirection, searchQuery, isLoading, onSearch>>

NextPage ==
    /\ PaginationShown
    /\ currentPage # TotalPages(data)
    /\ currentPage' = currentPage + 1
    /\ lastOp' = Op("nextPage", "")
    /\ onSearchCalls' = <<>>
    /\ UNCHANGED <<data, sortColumn, sortDirection, searchQuery, isLoading, onSearch>>

LastPage ==
    /\ PaginationShown
    /\ currentPage # TotalPages(data)
    /\ currentPage' = TotalPages(data)
    /\ lastOp' = Op("lastPage", "")
    /\ onSearchCalls' = <<>>
    /\ UNCHANGED <<data, sortColumn, sortDirection, searchQuery, isLoading, onSearch>>

\* The parent renders the table again with another record list or loading
\* flag; the component keeps its state.
Rerender(d, loading) ==
    /\ data' = d
    /\ isLoading' = loading
    /\ lastOp' = Op("rerender", "")
    /\ onSearchCalls' = <<>>
    /\ UNCHANGED <<currentPage, sortColumn, sortDirection, searchQuery, onSearch>>

---------------------------------------------------------------------------
(* useAdminEvents *)

\* How many fetchEvents calls a behaviour starts, the one at mount included.
MaxFetches == 3

\* The calls a run makes: the fetches started and the createEvent,
\* updateEvent and deleteEvent calls made, together.
MaxCalls == 4

\* The statuses of statusMap, and the choices of the status filter of the
\* page ('all' is stored as undefined).
Statuses == {"draft", "published", "cancelled"}

\* The events the backend holds.
Catalog == <<[id |-> 1, status |-> "draft"],
             [id |-> 2, status |-> "published"],
             [id |-> 3, status |-> "draft"]>>

HasStatus(e, status) == e.status = status

Resolved(value) == [kind |-> "resolved", value |-> value, error |-> NoThrow]

\* adminApi.getEvents(f): the events of the answer, filtered by the status
\* of f; the empty list when the call of the event client failed.
GetEvents(f, ok) ==
    IF ~ok THEN Resolved(<<>>)
    ELSE IF Truthy(f.status) /\ f.status \in Statuses
    THEN Resolved(SelectSeq(Catalog, LAMBDA e : HasStatus(e, f.status)))
    ELSE Resolved(Catalog)

Fetch(id, f) == [id |-> id, filters |-> f]

HookOp(name, id) == [op |-> name, id |-> id]

\* fetchEvents that drops the answer of every call but the one started last.
FetchSettledLatestOnly(f, p, latest) ==
    [events |-> IF p.kind = "resolved" /\ f.id = latest THEN p.value ELSE events,
     error |-> IF p.kind = "resolved" THEN hookError
               ELSE IF p.error.isError THEN p.error
               ELSE Err("Failed to fetch events"),
     isLoading |-> FALSE]

\* The state fetchEvents leaves when its await has settled with p:
\* setEvents(data) or setError(err), then setIsLoading(false).
FetchSettled(f, p, latest) ==
    [events |-> IF p.kind = "resolved" THEN p.value ELSE events,
     error |-> IF p.kind = "resolved" THEN hookError
               ELSE IF p.error.isError THEN p.error
               ELSE Err("Failed to fetch events"),
     isLoading |-> FALSE]

\* setFilters({...filters, status}) by the page, then the effect on
\* [filters]: fetchEvents runs up to its await.
SetFilters(status) ==
    /\ issued < MaxFetches
    /\ issued + mutations < MaxCalls
    /\ filters' = [filters EXCEPT !.status = status]
    /\ hookIsLoading' = TRUE
    /\ hookError' = NoThrow
    /\ issued' = issued + 1
    /\ pending' = pending \cup {Fetch(issued', filters')}
    /\ lastHookOp' = HookOp("setFilters", issued')
    /\ UNCHANGED <<events, completed, hookResult, mutations, calls>>

\* adminApi.getEvents of the call f settles and fetchEvents runs to its end.
SettleFetch(f, ok) ==
    /\ f \in pending
    /\ events' = FetchSettled(f, GetEvents(f.filters, ok), issued).events
    /\ hookError' = FetchSettled(f, GetEvents(f.filters, ok), issued).error
    /\ hookIsLoading' = FetchSettled(f, GetEvents(f.filters, ok), issued).isLoading
    /\ pending' = pending \ {f}
    /\ completed' = Append(completed, [id |-> f.id, result |-> GetEvents(f.filters, ok)])
    /\ lastHookOp' = HookOp("settleFetch", f.id)
    /\ UNCHANGED <<filters, issued, hookResult, mutations, calls>>

\* The events the backend answers a create or an update with: one with an
\* id of the catalog, one with a new id.
ReturnedEvents == {[id |-> 2, status |-> "cancelled"], [id |-> 4, status |-> "draft"]}
NoEvent == [id |-> 0, status |-> Undefined]

\* How a call of adminApi ends: with an event, or with a thrown value.
MutationResolved(e) == [kind |-> "resolved", event |-> e, error |-> NoThrow]
MutationRejected(err) == [kind |-> "rejected", event |-> NoEvent, error |-> err]

\* adminApi.createEvent: the converted event of the answer, or the error of
\* an answer without data or content, or whatever the event client threw.
CreateEventOutcomes ==
    {MutationResolved(e) : e \in ReturnedEvents}
        \cup {MutationRejected(Err("Failed to create event")), MutationRejected(NonError)}

\* adminApi.updateEvent
UpdateEventOutcomes ==
    {MutationResolved(e) : e \in ReturnedEvents}
        \cup {MutationRejected(Err("Event not found")), MutationRejected(NonError)}

\* adminApi.deleteEvent: the endpoint is not implemented, the call throws.
DeleteEventOutcomes ==
    {MutationRejected(Err("Delete event endpoint not yet implemented in backend"))}

\* What a call of the hook hands its caller, with the toast it raised and
\* the value adminApi rejected with.
HandedBack(e) == [kind |-> "returned", event |-> e, error |-> NoThrow,
                toast |-> Undefined, rejection |-> NoThrow]

\* The catch of the three calls: toast.error(errorMsg), then
\* throw err instanceof Error ? err : new Error(fallback)
Caught(err, fallback) ==
    [kind |-> "threw", event |-> NoEvent,
     error |-> IF err.isError THEN err ELSE Err(fallback),
     toast |-> IF err.isError THEN err.message ELSE fallback,
     rejection |-> err]

\* createEvent that puts the new event at the end of the list.
CreateEventAppends(p) ==
    IF p.kind = "resolved"
    THEN [events |-> Append(events, p.event), result |-> HandedBack(p.event)]
    ELSE [events |-> events, result |-> Caught(p.error, "Failed to create event")]

\* createEvent of the hook once adminApi.createEvent has settled with p:
\* setEvents(prev => [newEvent, ...prev]) and return newEvent, or the catch.
CreateEventSettled(p) ==
    IF p.kind = "resolved"
    THEN [events |-> <<p.event>> \o events, result |-> HandedBack(p.event)]
    ELSE [events |-> events, result |-> Caught(p.error, "Failed to create event")]

\* updateEvent: setEvents(prev => prev.map(e => e.id === id ? updatedEvent : e))
UpdateEventSettled(id, p) ==
    IF p.kind = "resolved"
    THEN [events |-> [i \in 1..Len(events) |->
                        IF events[i].id = id THEN p.event ELSE events[i]],
          result |-> HandedBack(p.event)]
    ELSE [events |-> events, result |-> Caught(p.error, "Failed to update event")]

\* deleteEvent: setEvents(prev => prev.filter(e => e.id !== id)), no value
\* returned.
DeleteEventSettled(id, p) ==
    IF p.kind = "resolved"
    THEN [events |-> SelectSeq(events, LAMBDA e : e.id # id), result |-> HandedBack(NoEvent)]
    ELSE [events |-> events, result |-> Caught(p.error, "Failed to delete event")]

\* The page calls createEvent, updateEvent(id) or deleteEvent(id): the call
\* of adminApi is made and awaited; no state of the hook is written yet.
\* A pending call is its function, the id it was given (0 for createEvent)
\* and its number n among the pending calls of the same function and id,
\* which are interchangeable: the one numbered last settles first.
CallEvent(op, id) ==
    /\ issued + mutations < MaxCalls
    /\ mutations' = mutations + 1
    /\ calls' = calls \cup
                  {[n |-> Cardinality({x \in calls : x.op = op /\ x.id = id}) + 1,
                    op |-> op, id |-> id]}
    /\ lastHookOp' = HookOp("call", id)
    /\ UNCHANGED <<events, hookIsLoading, hookError, filters, pending, issued, completed,
                   hookResult>>

\* adminApi.createEvent of the call c has settled with p and createEvent
\* runs to its end.
CreateEvent(c, p) ==
    /\ c \in calls
    /\ c.n = Cardinality({x \in calls : x.op = c.op /\ x.id = c.id})
    /\ c.op = "createEvent"
    /\ events' = CreateEventSettled(p).events
    /\ hookResult' = CreateEventSettled(p).result
    /\ calls' = calls \ {c}
    /\ lastHookOp' = HookOp("createEvent", c.id)
    /\ UNCHANGED <<hookIsLoading, hookError, filters, pending, issued, completed, mutations>>

UpdateEvent(c, p) ==
    /\ c \in calls
    /\ c.n = Cardinality({x \in calls : x.op = c.op /\ x.id = c.id})
    /\ c.op = "updateEvent"
    /\ events' = UpdateEventSettled(c.id, p).events
    /\ hookResult' = UpdateEventSettled(c.id, p).result
    /\ calls' = calls \ {c}
    /\ lastHookOp' = HookOp("updateEvent", c.id)
    /\ UNCHANGED <<hookIsLoading, hookError, filters, pending, issued, completed, mutations>>

DeleteEvent(c, p) ==
    /\ c \in calls
    /\ c.n = Cardinality({x \in calls : x.op = c.op /\ x.id = c.id})
    /\ c.op = "deleteEvent"
    /\ events' = DeleteEventSettled(c.id, p).events
    /\ hookResult' = DeleteEventSettled(c.id, p).result
    /\ calls' = calls \ {c}
    /\ lastHookOp' = HookOp("deleteEvent", c.id)
    /\ UNCHANGED <<hookIsLoading, hookError, filters, pending, issued, completed, mutations>>

---------------------------------------------------------------------------
(* The list getters of adminApi *)

Getters == {"getEvents", "getUsers", "getVendors", "getPayments", "getTickets"}

\* The records of a page as the backend of each getter sends them.
PageItems(g) ==
    CASE g = "getEvents" -> <<[id |-> 1, status |-> "DRAFT"], [id |-> 2, status |-> "PUBLISHED"],
                              [id |-> 3, status |-> "published"], [id |-> 4, status |-> "PENDING"],
                              [id |-> 5, status |-> Undefined]>>
      [] g = "getUsers" -> <<[id |-> 1, status |-> "active"], [id |-> 2, status |-> "suspended"]>>
      [] g = "getVendors" -> <<[id |-> 1, status |-> "approved"], [id |-> 2, status |-> "pending"]>>
      [] g = "getPayments" -> <<[id |-> 1, status |-> "COMPLETED"], [id |-> 2, status |-> "FAILED"],
                                [id |-> 3, status |-> "REFUNDED"], [id |-> 4, status |-> "completed"],
                                [id |-> 5, status |-> "DRAFT"], [id |-> 6, status |-> Undefined]>>
      [] g = "getTickets" -> <<>>

\* The values of data and content in the bodies of a list call: a page with
\* records ("d1" under data, "c1" under content), a page whose content is
\* the empty array, a page object without content, and a single record.
\* HasContent(v): v.content is truthy, as an array is, the empty one too.
HasContent(v) == v \in {"d1", "c1", "dEmpty"}

\* v.content of a page v
ContentOf(g, v) == IF v \in {"d1", "c1"} THEN PageItems(g) ELSE <<>>

ListBodies ==
    {Obj(s, m, Undefined, d, Undefined, Undefined) :
        s \in {Undefined, "true", "false"}, m \in {Undefined, "ok"},
        d \in {Undefined, "d1", "dEmpty", "dBare"}}
    \cup {Obj(Undefined, "ok", Undefined, Undefined, c, k) :
            c \in {"c1", "cItem"}, k \in {"00", "01"}}
    \cup {NullValue, Unparsable}

\* What the transport answers a list call with.
ListTransportOutcomes ==
    {Rejected(Err("Failed to fetch")), Rejected(NonError)}
    \cup {Response(sl, "text/plain", "boom", Unparsable) :
            sl \in {x \in StatusLines : x.status \in {200, 500}}}
    \cup {Response(sl, "application/json", "", j) :
            sl \in {x \in StatusLines : x.status \in {200, 500}}, j \in ListBodies \ {Unparsable}}
    \cup {Response(sl, "application/json", t, Unparsable) :
            sl \in {x \in StatusLines : x.status \in {200, 500}}, t \in UnparsableTexts}

\* The outcome of the service call of getter g on the transport's answer t.
\* getEvents awaits the event client, getUsers and getVendors await
\* authenticatedRequest, getPayments the payment client, getTickets none.
ServiceOutcome(g, t) ==
    CASE g = "getEvents" -> EventRequest(t)
      [] g = "getUsers" -> authenticatedRequest(t)
      [] g = "getVendors" -> authenticatedRequest(t)
      [] g = "getPayments" -> PaymentRequest(t)
      [] g = "getTickets" -> NoOutcome

\* The status filters a page passes: none, 'all', or a status of its records.
ListStatuses(g) ==
    {Undefined, "all"} \cup
    CASE g = "getEvents" -> {"draft", "published"}
      [] g = "getUsers" -> {"active"}
      [] g = "getVendors" -> {"approved"}
      [] g = "getPayments" -> {"completed", "failed"}
      [] g = "getTickets" -> {"confirmed"}

\* How a getter ends: it resolves to a list.
ListResolved(l, toast) == [kind |-> "resolved", value |-> l, toast |-> toast]

\* The catch of getEvents and getPayments: toast.error(errorMsg); return []
CaughtWithToast(e, fallback) ==
    ListResolved(<<>>, IF e.isError THEN e.message ELSE fallback)

\* s?.toUpperCase(), over the statuses of the model
ToUpperCase(s) ==
    CASE s = "draft" -> "DRAFT"
      [] s = "published" -> "PUBLISHED"
      [] s = "cancelled" -> "CANCELLED"
      [] s = "pending" -> "PENDING"
      [] s = "completed" -> "COMPLETED"
      [] s = "failed" -> "FAILED"
      [] s = "refunded" -> "REFUNDED"
      [] OTHER -> s

\* statusMap[dto.eventStatus?.toUpperCase()] || 'draft'
EventStatus(s) ==
    CASE ToUpperCase(s) = "DRAFT" -> "draft"
      [] ToUpperCase(s) = "PUBLISHED" -> "published"
      [] ToUpperCase(s) = "CANCELLED" -> "cancelled"
      [] OTHER -> "draft"

\* statusMap[dto.status?.toUpperCase()] || 'pending'
PaymentStatus(s) ==
    CASE ToUpperCase(s) = "PENDING" -> "pending"
      [] ToUpperCase(s) = "COMPLETED" -> "completed"
      [] ToUpperCase(s) = "FAILED" -> "failed"
      [] ToUpperCase(s) = "REFUNDED" -> "refunded"
      [] OTHER -> "pending"

convertEventDTOToEvent(dto) == [id |-> ToString(dto.id), status |-> EventStatus(dto.status)]
convertPaymentDTOToPayment(dto) == [id |-> ToString(dto.id), status |-> PaymentStatus(dto.status)]


\* statusMap of getEvents
BackendStatus(status) ==
    CASE status = "draft" -> "DRAFT"
      [] status = "published" -> "PUBLISHED"
      [] status = "cancelled" -> "CANCELLED"
      [] OTHER -> Undefined

\* pageData of getEvents: response.data, or response.content when it holds a
\* content of its own, or response.content wrapped as a page of one event.
EventDTOs(val) ==
    IF Truthy(val.data)
    THEN IF HasContent(val.data) THEN ContentOf("getEvents", val.data) ELSE <<>>
    ELSE IF Truthy(val.content)
    THEN IF HasContent(val.content) THEN ContentOf("getEvents", val.content)
         ELSE <<[id |-> 3, status |-> "CANCELLED"]>>
    ELSE <<>>

\* adminApi.getEvents on the outcome o of getAllEvents
getEvents(o, status) ==
    IF o.kind = "threw" THEN CaughtWithToast(o.thrown, "Failed to fetch events")
    ELSE IF o.val.kind = "null" THEN CaughtWithToast(NullRead("data"), "Failed to fetch events")
    ELSE LET dtos == EventDTOs(o.val)
             filtered ==
                 IF Truthy(status) /\ Len(dtos) > 0 /\ Truthy(BackendStatus(status))
                 THEN SelectSeq(dtos, LAMBDA e : e.status = BackendStatus(status))
                 ELSE dtos
         IN ListResolved([i \in 1..Len(filtered) |-> convertEventDTOToEvent(filtered[i])],
                         Undefined)

\* adminApi.getUsers: response.data?.content || [], then the status filter;
\* the catch returns [] without a toast.
getUsers(o, status) ==
    IF o.kind = "threw" \/ o.val.kind = "null" THEN ListResolved(<<>>, Undefined)
    ELSE LET users == IF HasContent(o.val.data) THEN ContentOf("getUsers", o.val.data) ELSE <<>>
         IN ListResolved(IF Truthy(status) /\ status # "all"
                         THEN SelectSeq(users, LAMBDA u : u.status = status)
                         ELSE users,
                         Undefined)

\* adminApi.getVendors: the same over the vendors.
getVendors(o, status) ==
    IF o.kind = "threw" \/ o.val.kind = "null" THEN ListResolved(<<>>, Undefined)
    ELSE LET vendors == IF HasContent(o.val.data) THEN ContentOf("getVendors", o.val.data) ELSE <<>>
         IN ListResolved(IF Truthy(status) /\ status # "all"
                         THEN SelectSeq(vendors, LAMBDA v : v.status = status)
                         ELSE vendors,
                         Undefined)

\* adminApi.getPayments on the outcome o of getPaymentHistory
getPayments(o, status) ==
    IF o.kind = "threw" THEN CaughtWithToast(o.thrown, "Failed to fetch payments")
    ELSE IF o.val.kind = "null" THEN CaughtWithToast(NullRead("data"), "Failed to fetch payments")
    ELSE LET pageData == IF Truthy(o.val.data) THEN o.val.data ELSE o.val.content
             dtos == IF HasContent(pageData) THEN ContentOf("getPayments", pageData) ELSE <<>>
             payments == [i \in 1..Len(dtos) |-> convertPaymentDTOToPayment(dtos[i])]
         IN ListResolved(IF Truthy(status) /\ status # "all"
                         THEN SelectSeq(payments, LAMBDA q : q.status = status)
                         ELSE payments,
                         Undefined)

\* adminApi.getTickets: the placeholder
getTickets(o, status) == ListResolved(<<>>, Undefined)

Getter(g, o, status) ==
    CASE g = "getEvents" -> getEvents(o, status)
      [] g = "getUsers" -> getUsers(o, status)
      [] g = "getVendors" -> getVendors(o, status)
      [] g = "getPayments" -> getPayments(o, status)
      [] g = "getTickets" -> getTickets(o, status)

\* A page calls getter g with the status filter: the getter runs up to the
\* await of its service call; getTickets awaits nothing and resolves.
CallGetter(g, status) ==
    /\ listResult.kind # "pending"
    /\ listCall' = [getter |-> g, status |-> status, service |-> NoOutcome]
    /\ listResult' = IF g = "getTickets" THEN getTickets(NoOutcome, status)
                     ELSE [kind |-> "pending", value |-> <<>>, toast |-> Undefined]

\* The transport answers t: the service call settles and the getter runs
\* from its await to its end.
SettleGetter(t) ==
    /\ listResult.kind = "pending"
    /\ listCall' = [listCall EXCEPT !.service = ServiceOutcome(listCall.getter, t)]
    /\ listResult' = Getter(listCall.getter, listCall'.service, listCall.status)

---------------------------------------------------------------------------
(* useAdminAuth and AdminSignIn: the values *)

\* The role of a user as the backend sends it: absent, a string in some
\* case, or a value that is no string and has no toLowerCase.
NotAString == "<number>"
Roles == {Undefined, "admin", "ADMIN", "user", NotAString}

\* role?.toLowerCase()
ToLowerCase(role) == IF role = "ADMIN" THEN "admin" ELSE role
LowerThrows(role) == role = NotAString

\* A user object, or its absence, in a field of the response.
NoUser == [present |-> FALSE, id |-> Undefined, userId |-> Undefined, role |-> Undefined]
User(id, userId, role) == [present |-> TRUE, id |-> id, userId |-> userId, role |-> role]
UserFields ==
    {NoUser} \cup {User("u1", Undefined, role) : role \in Roles}
             \cup {User(Undefined, userId, "admin") : userId \in {Undefined, "x7"}}

\* What the await of userServiceAPI.getCurrentUser() gives checkAuth: an
\* envelope, a { content } body, a user at the root of the body, a throw or
\* null (the request copy that rethrows and returns a null body as it is;
\* reading response.success or response.content of null throws into the
\* catch of checkAuth).
CurrentUserResolved(success, d, content, root) ==
    [kind |-> "returned", success |-> success, data |-> d, content |-> content,
     id |-> root.id, userId |-> root.userId, email |-> root.email, role |-> root.role]
CurrentUserThrew ==
    [kind |-> "threw", success |-> Undefined, data |-> NoUser, content |-> NoUser,
     id |-> Undefined, userId |-> Undefined, email |-> Undefined, role |-> Undefined]

\* The fields of a user at the root of the body.
CurrentUserResults ==
    {CurrentUserResolved(success, d, content, root) :
        success \in {Undefined, "true", "false"}, d \in UserFields,
        content \in {NoUser, User("u1", Undefined, "admin"), User(Undefined, "x7", "admin"),
                     User("u1", Undefined, "user")},
        root \in [id : {Undefined, "u1"}, userId : {Undefined, "x7"},
                  email : {Undefined, "a@b.c"}, role : {Undefined, "admin"}]}
    \cup {CurrentUserThrew, [CurrentUserThrew EXCEPT !.kind = "null"]}

\* The admin state of the hook.
NoAdmin == [set |-> FALSE, id |-> Undefined, role |-> Undefined]
Admin(id) == [set |-> TRUE, id |-> id, role |-> "admin"]

\* What a run of checkAuth decides: the admin to set, and whether both
\* slots are cleared.
\* setAdmin of the copy: id: userData.id in hooks/useAdminAuth.ts,
\* id: userData.id || userData.userId || '' in the copy that reads content.
Granted(copy, userData) ==
    [admin |-> Admin(IF copy = "hook" THEN userData.id
                     ELSE Or(Or(userData.id, userData.userId), "")),
     clear |-> FALSE]
Denied == [admin |-> NoAdmin, clear |-> TRUE]

\* The branch on the role of the user data found.
CheckRole(copy, userData) ==
    IF LowerThrows(userData.role) THEN Denied
    ELSE IF ToLowerCase(userData.role) = "admin" THEN Granted(copy, userData)
    ELSE Denied

\* checkAuth of hooks/useAdminAuth.ts, after the await.
CheckAuthHook(r) ==
    IF r.kind \in {"threw", "null"} THEN Denied
    ELSE IF Truthy(r.success) /\ r.data.present THEN CheckRole("hook", r.data)
    ELSE Denied

\* checkAuth of the copy that also reads response.content and the root of
\* the response, after the await.
CheckAuthContent(r) ==
    IF r.kind \in {"threw", "null"} THEN Denied
    ELSE IF r.content.present THEN CheckRole("content", r.content)
    ELSE IF r.data.present THEN CheckRole("content", r.data)
    ELSE IF Truthy(r.id) \/ Truthy(r.email)
    THEN CheckRole("content", User(r.id, r.userId, r.role))
    ELSE Denied

\* checkAuth that lets every user with data in, whatever the role.
CheckAuthAnyRole(copy, r) ==
    IF r.kind = "returned" /\ r.data.present THEN Granted(copy, r.data) ELSE Denied

CheckAuth(copy, r) == IF copy = "hook" THEN CheckAuthHook(r) ELSE CheckAuthContent(r)

\* What the await of userServiceAPI.adminLogin gives handleSubmit: the
\* envelope its request returned (the request itself, with its header and
\* its toasts, is the subject of the requests above), the error the copy
\* of adminLogin that rethrows ends with, or null: the body null of a 2xx
\* answer, which the request of that copy returns as it is.
NoLogin == [present |-> FALSE, token |-> Undefined, role |-> Undefined]
Login(token, role) == [present |-> TRUE, token |-> token, role |-> role]
LoginResolved(success, message, error, d) ==
    [kind |-> "returned", success |-> success, message |-> message, error |-> error,
     data |-> d, thrown |-> NoThrow]
LoginThrew(e) ==
    [kind |-> "threw", success |-> Undefined, message |-> Undefined, error |-> Undefined,
     data |-> NoLogin, thrown |-> e]
LoginResults ==
    {LoginResolved(success, message, error, d) :
        success \in {Undefined, "true", "false"}, message \in {Undefined, "bad"},
        error \in {Undefined, "err"},
        d \in {NoLogin} \cup {Login(token, role) :
                                token \in {Undefined, ""} \cup Tokens, role \in Roles}}
    \cup {LoginThrew(Err("boom")), LoginThrew(Err("Invalid email or password")),
          LoginThrew(Err("Login failed. Please try again."))}
    \cup {[LoginThrew(NoThrow) EXCEPT !.kind = "null"]}

\* The state of the sign-in page.
SignInForm(loading, remember, error) ==
    [isLoading |-> loading, rememberMe |-> remember, error |-> error]

\* handleSubmit reaches the lines that store the token.
LoginAccepted(r) ==
    /\ r.kind = "returned"
    /\ Truthy(r.success)
    /\ r.data.present
    /\ Truthy(r.data.token)
    /\ ~LowerThrows(r.data.role)
    /\ ~(Truthy(ToLowerCase(r.data.role)) /\ ToLowerCase(r.data.role) # "admin")

\* The setError of a handleSubmit that stores nothing.
SignInError(r) ==
    IF r.kind = "null" THEN NullRead("success").message
    ELSE IF r.kind = "threw"
    THEN IF r.thrown.isError THEN r.thrown.message
         ELSE "An error occurred. Please try again."
    ELSE IF ~Truthy(r.success) THEN Or(Or(r.message, r.error), "Invalid email or password")
    ELSE IF ~r.data.present THEN "Authentication failed. No data received from server."
    ELSE IF ~Truthy(r.data.token) THEN "Authentication failed. No token received."
    ELSE IF LowerThrows(r.data.role)
    THEN "response.data.user?.role?.toLowerCase is not a function"
    ELSE "Access denied. Admin credentials required."

AuthOp(name, copy, r, stored) == [op |-> name, copy |-> copy, resp |-> r, stored |-> stored]

---------------------------------------------------------------------------
(* The requests and the token slots *)

\* The first half of request: the token is read, the headers are built and
\* fetch is called.
StartRequest(c) ==
    /\ pc = "idle"
    /\ pc' = "fetching"
    /\ client' = c
    /\ sentAuth' = AuthorizationHeader(Token(localToken, sessionToken))
    /\ UNCHANGED <<localToken, sessionToken, resp, outcome, toasts>>

\* The promise of fetch settles with t.  A rejection runs the catch block
\* to its end; a response has its content-type read and its body asked for
\* (await response.json() or await response.text()).
Settle(t) ==
    /\ pc = "fetching"
    /\ resp' = t
    /\ IF t.kind = "reject"
       THEN /\ pc' = "done"
            /\ outcome' = Request(client, t)
            /\ toasts' = Request(client, t).toasts
       ELSE /\ pc' = "reading"
            /\ UNCHANGED <<outcome, toasts>>
    /\ UNCHANGED <<localToken, sessionToken, client, sentAuth>>

\* The body has been read: request classifies the answer and ends.
SettleBody ==
    /\ pc = "reading"
    /\ pc' = "done"
    /\ outcome' = Request(client, resp)
    /\ toasts' = Request(client, resp).toasts
    /\ UNCHANGED <<localToken, sessionToken, client, sentAuth, resp>>

\* The caller has taken the result.
Finish ==
    /\ pc = "done"
    /\ pc' = "idle"
    /\ client' = "none"
    /\ sentAuth' = NoHeader
    /\ resp' = NoResponse
    /\ outcome' = NoOutcome
    /\ toasts' = <<>>
    /\ UNCHANGED <<localToken, sessionToken>>

\* AdminSignIn stores the token of a successful login.
StoreToken(rememberMe, token) ==
    /\ IF rememberMe
       THEN localToken' = token /\ UNCHANGED sessionToken
       ELSE sessionToken' = token /\ UNCHANGED localToken
    /\ UNCHANGED <<pc, client, sentAuth, resp, outcome, toasts>>

\* useAdminAuth.logout
Logout ==
    /\ admin' = NoAdmin
    /\ localToken' = Null
    /\ sessionToken' = Null
    /\ lastAuthOp' = AuthOp("logout", "none", CurrentUserThrew, FALSE)
    /\ UNCHANGED <<pc, client, sentAuth, resp, outcome, toasts, authIsLoading, authPc, form>>

---------------------------------------------------------------------------
(* useAdminAuth and AdminSignIn: the steps *)

\* The effect of the mount: checkAuth reads the slots and either awaits
\* getCurrentUser or, with no token, ends at once.
CheckAuthStart ==
    /\ authPc = "mounted"
    /\ IF Truthy(Token(localToken, sessionToken))
       THEN /\ authPc' = "awaiting"
            /\ UNCHANGED <<admin, authIsLoading>>
       ELSE /\ authPc' = "done"
            /\ admin' = NoAdmin
            /\ authIsLoading' = FALSE
    /\ lastAuthOp' = AuthOp("checkAuthStart", "none", CurrentUserThrew, FALSE)
    /\ UNCHANGED <<reqVars, form>>

\* getCurrentUser has settled with r and checkAuth runs to its end.
CheckAuthSettle(copy, r) ==
    /\ authPc = "awaiting"
    /\ authPc' = "done"
    /\ admin' = CheckAuth(copy, r).admin
    /\ IF CheckAuth(copy, r).clear
       THEN localToken' = Null /\ sessionToken' = Null
       ELSE UNCHANGED <<localToken, sessionToken>>
    /\ authIsLoading' = FALSE
    /\ lastAuthOp' = AuthOp("checkAuthSettle", copy, r, FALSE)
    /\ UNCHANGED <<pc, client, sentAuth, resp, outcome, toasts, form>>

\* handleSubmit of AdminSignIn, shown while no admin is set, up to its
\* await: setError(""), setIsLoading(true), the two validations and the
\* call of adminLogin.  The button is disabled while a submit is awaited.
Submit(input) ==
    /\ ~authIsLoading
    /\ ~admin.set
    /\ ~form.isLoading
    /\ form' = IF input = "valid" THEN SignInForm(TRUE, form.rememberMe, "")
               ELSE IF input = "empty"
               THEN SignInForm(FALSE, form.rememberMe, "Please enter both email and password")
               ELSE SignInForm(FALSE, form.rememberMe, "Please enter a valid email address")
    /\ lastAuthOp' = AuthOp("submit", "none", CurrentUserThrew, FALSE)
    /\ UNCHANGED <<reqVars, admin, authIsLoading, authPc>>

\* The 'Remember me' checkbox of AdminSignIn, disabled while a submit is
\* awaited: onCheckedChange={(checked) => setRememberMe(checked)}
setRememberMe(checked) ==
    /\ ~authIsLoading
    /\ ~admin.set
    /\ ~form.isLoading
    /\ checked # form.rememberMe
    /\ form' = [form EXCEPT !.rememberMe = checked]
    /\ lastAuthOp' = AuthOp("setRememberMe", "none", CurrentUserThrew, FALSE)
    /\ UNCHANGED <<reqVars, admin, authIsLoading, authPc>>

\* adminLogin has settled with r and handleSubmit runs to its end: an
\* accepted login stores the token and reloads the page, which mounts the
\* application anew.
SignIn(r) ==
    /\ form.isLoading
    /\ IF LoginAccepted(r)
       THEN /\ StoreToken(form.rememberMe, r.data.token)
            /\ admin' = NoAdmin
            /\ authIsLoading' = TRUE
            /\ authPc' = "mounted"
            /\ form' = SignInForm(FALSE, FALSE, "")
       ELSE /\ form' = SignInForm(FALSE, form.rememberMe, SignInError(r))
            /\ UNCHANGED <<reqVars, admin, authIsLoading, authPc>>
    /\ lastAuthOp' = AuthOp(IF form.rememberMe THEN "signInRemembered" ELSE "signIn",
                            "none", r, LoginAccepted(r))

\* The logout button of the layout, shown while an admin is set.
LogoutClick ==
    /\ ~authIsLoading
    /\ admin.set
    /\ Logout

\* Another tab of the browser signs in with rememberMe: localStorage is
\* shared between the tabs.
OtherTabSignIn(token) ==
    /\ localToken' = token
    /\ UNCHANGED <<sessionToken, pc, client, sentAuth, resp, outcome, toasts, authVars>>

\* Another tab of the browser logs out.
OtherTabLogout ==
    /\ localToken' = Null
    /\ UNCHANGED <<sessionToken, pc, client, sentAuth, resp, outcome, toasts, authVars>>

---------------------------------------------------------------------------
(* Specifications *)

InitSlots == localToken \in TokenValues /\ sessionToken \in TokenValues

InitIdle ==
    /\ pc = "idle"
    /\ client = "none"
    /\ sentAuth = NoHeader
    /\ resp = NoResponse
    /\ outcome = NoOutcome
    /\ toasts = <<>>

\* The DataTable as mounted.
InitMounted ==
    /\ currentPage = 1
    /\ sortColumn = Null
    /\ sortDirection = "asc"
    /\ searchQuery = ""
    /\ onSearchCalls = <<>>
    /\ lastOp = Op("mount", "")

\* useAdminEvents as mounted: the effect has started the first fetchEvents.
InitHook ==
    /\ events = <<>>
    /\ hookIsLoading = TRUE
    /\ hookError = NoThrow
    /\ filters = [status |-> Undefined]
    /\ pending = {Fetch(1, [status |-> Undefined])}
    /\ issued = 1
    /\ completed = <<>>
    /\ lastHookOp = HookOp("mount", 1)
    /\ hookResult = [kind |-> "none", event |-> NoEvent, error |-> NoThrow,
                     toast |-> Undefined, rejection |-> NoThrow]
    /\ mutations = 0
    /\ calls = {}

\* useAdminAuth as constructed, before the effect of the mount.
InitAuth ==
    /\ admin = NoAdmin
    /\ authIsLoading = TRUE
    /\ authPc = "mounted"
    /\ lastAuthOp = AuthOp("mount", "none", CurrentUserThrew, FALSE)
    /\ form = SignInForm(FALSE, FALSE, "")

\* No list getter has been called.
InitLists ==
    /\ listCall = [getter |-> "none", status |-> Undefined, service |-> NoOutcome]
    /\ listResult = [kind |-> "none", value |-> <<>>, toast |-> Undefined]

\* The requests, with no table on screen.
InitRequest ==
    /\ InitSlots
    /\ InitIdle
    /\ InitMounted
    /\ InitHook
    /\ InitAuth
    /\ InitLists
    /\ data = <<>>
    /\ isLoading = FALSE
    /\ onSearch = FALSE

NextRequest ==
    \/ \E c \in Clients : StartRequest(c) /\ UNCHANGED <<tableVars, hookVars, authVars, listVars>>
    \/ \E t \in TransportOutcomes : Settle(t) /\ UNCHANGED <<tableVars, hookVars, authVars, listVars>>
    \/ SettleBody /\ UNCHANGED <<tableVars, hookVars, authVars, listVars>>
    \/ Finish /\ UNCHANGED <<tableVars, hookVars, authVars, listVars>>
    \/ \E rememberMe \in BOOLEAN, token \in Tokens :
          StoreToken(rememberMe, token) /\ UNCHANGED <<tableVars, hookVars, authVars, listVars>>
    \/ Logout /\ UNCHANGED <<tableVars, hookVars, listVars>>

SpecRequest == InitRequest /\ [][NextRequest]_vars

\* The table, with no request in flight.
InitTable ==
    /\ localToken = Null
    /\ sessionToken = Null
    /\ InitIdle
    /\ InitMounted
    /\ InitHook
    /\ InitAuth
    /\ InitLists
    /\ data \in DataSets
    /\ isLoading \in BOOLEAN
    /\ onSearch \in BOOLEAN

NextTable ==
    \/ \E k \in ColumnKeys : HandleSort(k) /\ UNCHANGED <<reqVars, hookVars, authVars, listVars>>
    \/ \E v \in SearchTexts : HandleSearchChange(v) /\ UNCHANGED <<reqVars, hookVars, authVars, listVars>>
    \/ FirstPage /\ UNCHANGED <<reqVars, hookVars, authVars, listVars>>
    \/ PreviousPage /\ UNCHANGED <<reqVars, hookVars, authVars, listVars>>
    \/ NextPage /\ UNCHANGED <<reqVars, hookVars, authVars, listVars>>
    \/ LastPage /\ UNCHANGED <<reqVars, hookVars, authVars, listVars>>
    \/ \E d \in DataSets, loading \in BOOLEAN : Rerender(d, loading) /\ UNCHANGED <<reqVars, hookVars, authVars, listVars>>

SpecTable == InitTable /\ [][NextTable]_vars

\* The hook, with no request of the other clients and an empty table.
InitEvents ==
    /\ localToken = Null
    /\ sessionToken = Null
    /\ InitIdle
    /\ InitMounted
    /\ InitHook
    /\ InitAuth
    /\ InitLists
    /\ data = <<>>
    /\ isLoading = FALSE
    /\ onSearch = FALSE

NextEvents ==
    \/ \E status \in {Undefined} \cup Statuses : SetFilters(status) /\ UNCHANGED <<reqVars, tableVars, authVars, listVars>>
    \/ \E f \in pending, ok \in BOOLEAN : SettleFetch(f, ok) /\ UNCHANGED <<reqVars, tableVars, authVars, listVars>>
    \/ CallEvent("createEvent", 0) /\ UNCHANGED <<reqVars, tableVars, authVars, listVars>>
    \/ \E op \in {"updateEvent", "deleteEvent"}, id \in {2, 3} :
          CallEvent(op, id) /\ UNCHANGED <<reqVars, tableVars, authVars, listVars>>
    \/ \E c \in calls, p \in CreateEventOutcomes :
          CreateEvent(c, p) /\ UNCHANGED <<reqVars, tableVars, authVars, listVars>>
    \/ \E c \in calls, p \in UpdateEventOutcomes :
          UpdateEvent(c, p) /\ UNCHANGED <<reqVars, tableVars, authVars, listVars>>
    \/ \E c \in calls, p \in DeleteEventOutcomes :
          DeleteEvent(c, p) /\ UNCHANGED <<reqVars, tableVars, authVars, listVars>>

SpecEvents == InitEvents /\ [][NextEvents]_vars

\* The list getters, called by the pages one call after the other.
InitGetters ==
    /\ localToken = Null
    /\ sessionToken = Null
    /\ InitIdle
    /\ InitMounted
    /\ InitHook
    /\ InitAuth
    /\ InitLists
    /\ data = <<>>
    /\ isLoading = FALSE
    /\ onSearch = FALSE

NextGetters ==
    \/ \E g \in Getters : \E status \in ListStatuses(g) :
          CallGetter(g, status) /\ UNCHANGED <<reqVars, tableVars, hookVars, authVars>>
    \/ \E t \in ListTransportOutcomes :
          SettleGetter(t) /\ UNCHANGED <<reqVars, tableVars, hookVars, authVars>>

SpecGetters == InitGetters /\ [][NextGetters]_vars

\* The application shell: the auth check, the sign-in page and the logout,
\* with other tabs of the browser writing the shared slot.
InitApp ==
    /\ InitSlots
    /\ InitIdle
    /\ InitMounted
    /\ InitHook
    /\ InitAuth
    /\ InitLists
    /\ data = <<>>
    /\ isLoading = FALSE
    /\ onSearch = FALSE

NextApp ==
    \/ CheckAuthStart /\ UNCHANGED <<tableVars, hookVars, listVars>>
    \/ \E copy \in {"hook", "content"}, r \in CurrentUserResults :
          CheckAuthSettle(copy, r) /\ UNCHANGED <<tableVars, hookVars, listVars>>
    \/ \E input \in {"valid", "empty", "badEmail"} :
          Submit(input) /\ UNCHANGED <<tableVars, hookVars, listVars>>
    \/ \E checked \in BOOLEAN :
          setRememberMe(checked) /\ UNCHANGED <<tableVars, hookVars, listVars>>
    \/ \E r \in LoginResults : SignIn(r) /\ UNCHANGED <<tableVars, hookVars, listVars>>
    \/ LogoutClick /\ UNCHANGED <<tableVars, hookVars, listVars>>
    \/ \E token \in Tokens : OtherTabSignIn(token) /\ UNCHANGED <<tableVars, hookVars, listVars>>
    \/ OtherTabLogout /\ UNCHANGED <<tableVars, hookVars, listVars>>

SpecApp == InitApp /\ [][NextApp]_vars

---------------------------------------------------------------------------
(* The claims about request *)

\* The returned value is an envelope object.  The fields of a body that
\* request passes through untouched are the backend's and are not judged.
IsEnvelope(v) == v.kind = "object"

JsonAnswered == pc = "done" /\ resp.kind = "response" /\ IsJson(resp.contentType)
TextAnswered == pc = "done" /\ resp.kind = "response" /\ ~IsJson(resp.contentType)
ReturnedFailure == pc = "done" /\ outcome.kind = "returned" /\ outcome.val.success = "false"

\* C1: whatever the transport answers, request of every client returns a
\* canonical envelope and never throws.
C1_NeverThrows ==
    pc = "done" => outcome.kind = "returned" /\ IsEnvelope(outcome.val)

\* C2: whenever request returns an envelope with success false, it raised a
\* toast.error before it returned.
C2_FailureIsNotified ==
    ReturnedFailure => Len(toasts) >= 1

\* The message C3 names: the body's message, else its error, else the fallback.
ClaimedFailureMessage(body, r) ==
    IF body.message \notin {Undefined, ""} THEN body.message
    ELSE IF body.error \notin {Undefined, ""} THEN body.error
    ELSE "Request failed with status " \o ToString(r.status)

\* C3: for a parsed body under a failure status, or with success false, the
\* returned envelope has success false and the message of the body, else its
\* error, else 'Request failed with status <status>'.
C3_FailureOverride ==
    (JsonAnswered /\ resp.json.kind = "object"
        /\ (~Ok(resp) \/ resp.json.success = "false"))
    => /\ outcome.kind = "returned"
       /\ outcome.val.success = "false"
       /\ outcome.val.message = ClaimedFailureMessage(resp.json, resp)

\* C4: a body with a content field is returned with data equal to the
\* content, message equal to the body's message ('' when absent) and success
\* true when the code is "00" or the status is a success code.
C4_ContentRemapped ==
    (JsonAnswered /\ resp.json.kind = "object" /\ resp.json.content # Undefined)
    => /\ outcome.kind = "returned"
       /\ outcome.val.data = resp.json.content
       /\ outcome.val.message =
             (IF resp.json.message = Undefined THEN "" ELSE resp.json.message)
       /\ (resp.json.code = "00" \/ Ok(resp)) => outcome.val.success = "true"

\* C5: a non-JSON response with a success status is returned as success true
\* with the body text as message.
C5_TextSuccess ==
    (TextAnswered /\ Ok(resp))
    => /\ outcome.kind = "returned"
       /\ outcome.val.success = "true"
       /\ outcome.val.message = resp.text

\* C6: a non-JSON response with a failure status is returned as success false
\* with the body text, or the status line when the body is empty, as message.
C6_TextFailure ==
    (TextAnswered /\ ~Ok(resp))
    => /\ outcome.kind = "returned"
       /\ outcome.val.success = "false"
       /\ outcome.val.message =
             (IF resp.text # "" THEN resp.text
              ELSE "HTTP " \o ToString(resp.status) \o ": " \o resp.statusText)

\* C7: when fetch throws, whatever it throws, request returns success false
\* with the connectivity message and does not throw.
C7_TransportFailure ==
    (pc = "done" /\ resp.kind = "reject")
    => /\ outcome.kind = "returned"
       /\ outcome.val.success = "false"
       /\ outcome.val.message = NetworkErrorText

\* C8: when the body of a JSON response does not parse, request returns
\* success false with the fixed invalid-format message.
C8_ParseFailure ==
    (JsonAnswered /\ resp.json.kind = "syntaxError")
    => /\ outcome.kind = "returned"
       /\ outcome.val.success = "false"
       /\ outcome.val.message = InvalidFormat

\* A slot holds a non-empty adminToken.
HoldsToken(v) == v \notin {Null, Undefined, ""}

\* C9: the call carries 'Authorization: Bearer <token>' exactly when a slot
\* holds a non-empty adminToken, the persistent slot first; with no token it
\* carries no Authorization header.
C9_BearerToken ==
    [][(pc = "idle" /\ pc' = "fetching")
       => sentAuth' = (IF HoldsToken(localToken) THEN "Bearer " \o localToken
                       ELSE IF HoldsToken(sessionToken) THEN "Bearer " \o sessionToken
                       ELSE NoHeader)]_vars

\* C9's case: both slots hold a token and the call carries the persistent one.
C9_Witness ==
    /\ pc = "fetching"
    /\ localToken = "tokA"
    /\ sessionToken = "tokB"
    /\ sentAuth = "Bearer tokA"

---------------------------------------------------------------------------
(* The claims about DataTable *)

\* C10: the sort state starts as (no column, ascending); handleSort(k) on the
\* current column flips the direction and keeps the column, on another column
\* (or none) it sets the column to k and the direction to ascending.
C10_SortToggle ==
    /\ sortColumn = Null /\ sortDirection = "asc"
    /\ [][\A k \in ColumnKeys :
            lastOp' = Op("handleSort", k)
            => IF sortColumn = k
               THEN /\ sortColumn' = k
                    /\ sortDirection' # sortDirection
                    /\ sortDirection' \in {"asc", "desc"}
               ELSE sortColumn' = k /\ sortDirection' = "asc"]_vars

\* C10's case: a second click on the id column has turned the order round.
C10_Witness ==
    /\ lastOp = Op("handleSort", "id")
    /\ sortColumn = "id"
    /\ sortDirection = "desc"

\* C11: handleSearchChange(text), from any page, sets the current page to 1,
\* stores text as the search query and calls onSearch, when the parent
\* supplied it, exactly once with text.
C11_SearchChange ==
    [][\A v \in SearchTexts :
          lastOp' = Op("handleSearchChange", v)
          => /\ currentPage' = 1
             /\ searchQuery' = v
             /\ onSearchCalls' = (IF onSearch THEN <<v>> ELSE <<>>)]_vars

\* C11's case: typed over a list of three pages with onSearch supplied.
C11_Witness ==
    /\ lastOp = Op("handleSearchChange", "ab")
    /\ Len(data) > 2 * ItemsPerPage
    /\ currentPage = 1
    /\ searchQuery = "ab"
    /\ onSearchCalls = <<"ab">>

\* The page a pagination button asks for.
RequestedPage(op, page, total) ==
    CASE op = "firstPage" -> 1
      [] op = "previousPage" -> page - 1
      [] op = "nextPage" -> page + 1
      [] op = "lastPage" -> total

Clamp(n, lo, hi) == IF n < lo THEN lo ELSE IF n > hi THEN hi ELSE n

PageOps == {"firstPage", "previousPage", "nextPage", "lastPage"}

\* The pages one request can leave the table on: the current page, when
\* nothing is asked for, and the pages of the controls that are rendered
\* and not disabled.
PagesInReach ==
    {currentPage} \cup
    (IF PaginationShown
     THEN {RequestedPage(op, currentPage, TotalPages(data)) :
             op \in {o \in PageOps :
                       IF o \in {"firstPage", "previousPage"} THEN currentPage # 1
                       ELSE currentPage # TotalPages(data)}}
     ELSE {})

\* C12 as stated: totalPages is the record count over the page size, rounded
\* up (3 for 25 records), and a request for any page n leaves the current
\* page at n clamped to 1..totalPages, so in every state that shows the
\* pagination controls the clamped page of every n is a page a request can
\* leave the table on.
C12_AnyPageClamped ==
    /\ TotalPages(data) * ItemsPerPage >= Len(data)
    /\ (TotalPages(data) - 1) * ItemsPerPage < Len(data)
    /\ Len(data) = 25 => TotalPages(data) = 3
    /\ PaginationShown
          => \A n \in 0..(TotalPages(data) + 2) :
                Clamp(n, 1, TotalPages(data)) \in PagesInReach

\* C12, amended: totalPages is the record count over the page size, rounded
\* up (3 for 25 records).  A page is asked for by the First, Previous, Next
\* and Last controls only, and each leaves the current page at the page it
\* asks for (1, the page before, the page after, totalPages), which is
\* another page inside 1..totalPages: First and Previous are never run on
\* page 1 and Next and Last never on the last page, so no page outside the
\* range is asked for and nothing is clamped.
C12_PageRequestsInRange ==
    /\ [](/\ TotalPages(data) * ItemsPerPage >= Len(data)
          /\ (TotalPages(data) - 1) * ItemsPerPage < Len(data)
          /\ Len(data) = 25 => TotalPages(data) = 3)
    /\ [][lastOp'.op \in PageOps
          => /\ currentPage' = RequestedPage(lastOp'.op, currentPage, TotalPages(data))
             /\ currentPage' \in 1..TotalPages(data)
             /\ currentPage' # currentPage
             /\ lastOp'.op \in {"firstPage", "previousPage"} => currentPage > 1
             /\ lastOp'.op \in {"nextPage", "lastPage"} => currentPage < TotalPages(data)
             /\ data' = data]_vars

\* C12's case: Next has led to page 3 of 25 records, the last page, from
\* which no control asks for a page further on.
C12_Witness ==
    /\ lastOp = Op("nextPage", "")
    /\ Len(data) = 25
    /\ currentPage = 3
    /\ TotalPages(data) = 3
    /\ PaginationShown
    /\ PagesInReach = {1, 2, 3}

\* The rows of pages 1..n, one page after the other.
RECURSIVE PagesUpTo(_, _, _, _)
PagesUpTo(d, col, dir, n) ==
    IF n = 0 THEN <<>>
    ELSE PagesUpTo(d, col, dir, n - 1) \o PaginatedData(d, col, dir, n)

\* How often the record r occurs in s.
Occurrences(r, s) == Cardinality({i \in 1..Len(s) : s[i] = r})

\* s holds the records of d, each as often as d does.
SameRecords(s, d) ==
    /\ Len(s) = Len(d)
    /\ \A i \in 1..Len(d) : Occurrences(d[i], s) = Occurrences(d[i], d)

\* C13: the sort is applied to the whole list before it is cut in pages:
\* the rows of pages 1..ceil(N / P), one after the other, are the full sorted
\* sequence, which holds every record of the list once.
C13_PagesPartition ==
    /\ PagesUpTo(data, sortColumn, sortDirection, TotalPages(data))
          = SortedData(data, sortColumn, sortDirection)
    /\ SameRecords(SortedData(data, sortColumn, sortDirection), data)
    /\ \A n \in 1..TotalPages(data) :
          /\ Len(PaginatedData(data, sortColumn, sortDirection, n)) >= 1
          /\ n < TotalPages(data)
             => Len(PaginatedData(data, sortColumn, sortDirection, n)) = ItemsPerPage

\* C13's case: the second of three pages of a list sorted by id, descending.
C13_Witness ==
    /\ Len(data) = 2 * ItemsPerPage + 5
    /\ sortColumn = "id"
    /\ sortDirection = "desc"
    /\ currentPage = 2
    /\ SortedData(data, sortColumn, sortDirection) # data
    /\ PaginatedData(data, sortColumn, sortDirection, 2)
          = SubSeq(SortedData(data, sortColumn, sortDirection),
                   ItemsPerPage + 1, 2 * ItemsPerPage)

\* No row of s is followed by a row that the direction puts before it.
Monotonic(s, col, dir) ==
    \A i \in 1..(Len(s) - 1) :
        IF dir = "asc"
        THEN ~ValueLess(col, s[i + 1][col], s[i][col])
        ELSE ~ValueLess(col, s[i][col], s[i + 1][col])

\* C14: under a sort column the full sorted sequence is non-decreasing in
\* that column for ascending and non-increasing for descending; the records
\* with id 2 then 1, sorted by id ascending, are shown as 1, 2.
C14_SortedMonotonic ==
    /\ sortColumn # Null
       => Monotonic(SortedData(data, sortColumn, sortDirection), sortColumn, sortDirection)
    /\ \A a, b \in Records :
          (a.id = 2 /\ b.id = 1) => SortedData(<<a, b>>, "id", "asc") = <<b, a>>

\* C14's case: ids 2 then 1, sorted by id ascending, are shown as 1, 2.
C14_Witness ==
    /\ data = <<[id |-> 2, name |-> "B"], [id |-> 1, name |-> "A"]>>
    /\ sortColumn = "id"
    /\ sortDirection = "asc"
    /\ ~isLoading
    /\ PaginatedData(data, sortColumn, sortDirection, currentPage)
          = <<[id |-> 1, name |-> "A"], [id |-> 2, name |-> "B"]>>

Reverse(s) == [i \in 1..Len(s) |-> s[Len(s) + 1 - i]]

\* No two records of d have the same value in column col.
DistinctIn(d, col) ==
    \A i, j \in 1..Len(d) : i # j => d[i][col] # d[j][col]

\* The step is a click on the header of the column the list is sorted by.
FlipsDirection == lastOp'.op = "handleSort" /\ sortColumn = lastOp'.arg

\* C15 as stated: for every list, ties included, sorting the same column
\* again with the direction flipped yields exactly the reverse sequence.
C15_FlipReversesAll ==
    [][FlipsDirection
       => SortedData(data', sortColumn', sortDirection')
             = Reverse(SortedData(data, sortColumn, sortDirection))]_vars

\* C15, amended: for every list whose values in the sort column are pairwise
\* different, sorting the same column again with the direction flipped
\* yields exactly the reverse sequence.
C15_FlipReversesDistinct ==
    [][(FlipsDirection /\ DistinctIn(data, sortColumn))
       => SortedData(data', sortColumn', sortDirection')
             = Reverse(SortedData(data, sortColumn, sortDirection))]_vars

\* C15's case: twelve different ids shown descending after a second click.
C15_Witness ==
    /\ lastOp = Op("handleSort", "id")
    /\ sortDirection = "desc"
    /\ data = DistinctList(ItemsPerPage + 2)
    /\ DistinctIn(data, "id")
    /\ SortedData(data, "id", "desc") = Reverse(SortedData(data, "id", "asc"))
    /\ SortedData(data, "id", "desc")[1].id = ItemsPerPage + 2

Max(a, b) == IF a > b THEN a ELSE b

\* C16: in every reachable state, after page navigation, sort clicks, search
\* and the replacement of the record list by the parent, the current page is
\* at least 1 and at most max(1, totalPages).
C16_PageInRange ==
    1 <= currentPage /\ currentPage <= Max(1, TotalPages(data))

\* C17 as stated: whenever handleSearchChange is invoked, the sort state and
\* the page state are both back at their defaults (no column, ascending,
\* page 1).
C17_SearchResetsSortAndPage ==
    lastOp.op = "handleSearchChange"
    => sortColumn = Null /\ sortDirection = "asc" /\ currentPage = 1

\* C17, amended: whenever handleSearchChange is invoked, the page state is
\* back at page 1 and the sort column and direction are what they were.
C17_SearchResetsPageOnly ==
    [][lastOp'.op = "handleSearchChange"
       => /\ currentPage' = 1
          /\ sortColumn' = sortColumn
          /\ sortDirection' = sortDirection]_vars

\* C17's case: a search typed while the list is sorted by name, descending.
C17_Witness ==
    /\ lastOp.op = "handleSearchChange"
    /\ sortColumn = "name"
    /\ sortDirection = "desc"
    /\ currentPage = 1
    /\ Len(data) > ItemsPerPage

\* The rows of the page on screen.
CurrentRows == PaginatedData(data, sortColumn, sortDirection, currentPage)

\* C18: whenever isLoading is set, the card view and the table both show the
\* busy indicator, no data rows and no empty-state message, and the
\* pagination controls are not rendered, whether the list is empty or not.
C18_LoadingView ==
    isLoading
    => /\ \A prop \in EmptyMessageProps :
             /\ MobileCardView(isLoading, CurrentRows, prop) = Busy
             /\ DesktopTable(isLoading, CurrentRows, prop) = Busy
       /\ ~PaginationShown

\* C18's case: the parent sets isLoading while the second of three pages is
\* on screen.
C18_Witness ==
    /\ lastOp = Op("rerender", "")
    /\ isLoading
    /\ currentPage = 2
    /\ Len(CurrentRows) = ItemsPerPage
    /\ TotalPages(data) = 3
    /\ MobileCardView(isLoading, CurrentRows, Undefined).busy
    /\ DesktopTable(isLoading, CurrentRows, Undefined).rows = <<>>
    /\ ~PaginationShown

\* C19: when isLoading is not set and the list is empty, the card view and
\* the table both show the caller's empty-state message ('No data available'
\* when the caller gave none) and no data rows.
C19_EmptyView ==
    (~isLoading /\ data = <<>>)
    => \A prop \in EmptyMessageProps :
          /\ MobileCardView(isLoading, CurrentRows, prop)
                = Message(IF prop = Undefined THEN "No data available" ELSE prop)
          /\ DesktopTable(isLoading, CurrentRows, prop)
                = Message(IF prop = Undefined THEN "No data available" ELSE prop)

\* C19's case: the parent has replaced the list by an empty one.
C19_Witness ==
    /\ lastOp = Op("rerender", "")
    /\ ~isLoading
    /\ data = <<>>
    /\ DesktopTable(isLoading, CurrentRows, "No events found").message = "No events found"
    /\ MobileCardView(isLoading, CurrentRows, Undefined).message = "No data available"
    /\ MobileCardView(isLoading, CurrentRows, Undefined).rows = <<>>

---------------------------------------------------------------------------
(* The claims about useAdminEvents *)

\* C20: a fetch started while an earlier one is pending neither cancels nor
\* replaces it, a fetch ends only by settling, and once all have settled the
\* record list is the result of the one that settled last, whatever the
\* order they were started in.
C20_LastSettledWins ==
    /\ []((pending = {} /\ Len(completed) >= 2 /\ lastHookOp.op = "settleFetch")
          => events = completed[Len(completed)].result.value)
    /\ [][lastHookOp'.op = "setFilters"
          => /\ pending \subseteq pending'
             /\ Cardinality(pending') = Cardinality(pending) + 1]_vars
    /\ [][\A f \in pending :
            f \in pending' \/ lastHookOp' = HookOp("settleFetch", f.id)]_vars

\* C20's case: the fetch of the status filter 'draft' was started second and
\* settled first; the list is the unfiltered one of the fetch started first.
C20_Witness ==
    /\ pending = {}
    /\ Len(completed) = 2
    /\ completed[1].id = 2
    /\ completed[2].id = 1
    /\ filters.status = "draft"
    /\ completed[1].result.value # completed[2].result.value
    /\ events = Catalog

---------------------------------------------------------------------------
(* Further claims about DataTable *)

\* The records of d, each with its place in d.
Tagged(d) == [i \in 1..Len(d) |-> [id |-> d[i].id, name |-> d[i].name, pos |-> i]]

Untagged(s) == [i \in 1..Len(s) |-> [id |-> s[i].id, name |-> s[i].name]]

\* Rows of s with the same value in column col are in the order of their
\* places in the input.
TiesInInputOrder(s, col) ==
    \A p, q \in 1..Len(s) :
        (p < q /\ s[p][col] = s[q][col]) => s[p].pos < s[q].pos

\* C21: records with equal values in the sort column appear in the sorted
\* sequence in their order in the input list, ascending and descending; with
\* no sort column the displayed order is the input order.
C21_StableSort ==
    /\ \A col \in ColumnKeys, dir \in {"asc", "desc"} :
          /\ TiesInInputOrder(SortedData(Tagged(data), col, dir), col)
          /\ Untagged(SortedData(Tagged(data), col, dir)) = SortedData(data, col, dir)
    /\ \A dir \in {"asc", "desc"} : SortedData(data, Null, dir) = data

\* C21's case: two records that tie on id are shown in input order under a
\* descending sort by id.
C21_Witness ==
    /\ lastOp = Op("handleSort", "id")
    /\ sortColumn = "id"
    /\ sortDirection = "desc"
    /\ data = <<[id |-> 1, name |-> "B"], [id |-> 1, name |-> "A"]>>
    /\ SortedData(data, sortColumn, sortDirection) = data

\* C22: DataTable never filters by the search text: in every reachable
\* state, whatever the search query, the records shown across all pages are
\* the records of the data list, each as often as the list holds it.
C22_NoTextFilter ==
    \A q \in SearchTexts :
        searchQuery = q
        => SameRecords(PagesUpTo(data, sortColumn, sortDirection, TotalPages(data)), data)

\* C22's case: 'ab' was typed over 25 records none of which holds that text,
\* and all 25 are still on the three pages.
C22_Witness ==
    /\ lastOp = Op("handleSearchChange", "ab")
    /\ searchQuery = "ab"
    /\ Len(data) = 2 * ItemsPerPage + 5
    /\ Len(PagesUpTo(data, sortColumn, sortDirection, 3)) = 2 * ItemsPerPage + 5

---------------------------------------------------------------------------
(* Further claims about request *)

ReturnedSuccess == pc = "done" /\ outcome.kind = "returned" /\ outcome.val.success = "true"

\* request has built the returned envelope itself: from a text body, or from
\* a { code, content, message } body.
BuiltByRequest ==
    \/ TextAnswered
    \/ JsonAnswered /\ resp.json.kind = "object" /\ resp.json.content # Undefined

\* C23: every envelope that request builds and returns with success true
\* carries no error field; a { code, content, message } body whose code is
\* not "00" is never returned as success true with error set.
C23_SuccessHasNoError ==
    (BuiltByRequest /\ ReturnedSuccess) => outcome.val.error = Undefined

\* C24: every envelope that request returns with success false has a
\* non-empty message and an error field equal to that message, on every
\* failure path.
C24_FailureHasMessage ==
    ReturnedFailure
    => /\ outcome.val.message \notin {Undefined, Null, ""}
       /\ outcome.val.error = outcome.val.message

---------------------------------------------------------------------------
(* Further claims about the hooks *)

\* C25: isLoading is true in every state in which a fetch started by the hook
\* is still in flight, overlapping fetches included; it is false only when
\* no fetch is pending.
C25_LoadingWhilePending ==
    pending # {} => hookIsLoading

---------------------------------------------------------------------------
(* The claims about useAdminAuth and AdminSignIn *)

\* The result of getCurrentUser carries a user whose role, lower-cased, is
\* 'admin'.
HasAdminRole(r) ==
    /\ r.kind = "returned"
    /\ \E u \in {r.data, r.content, User(r.id, r.userId, r.role)} :
          u.present /\ u.role \in {"admin", "ADMIN"}

\* C26: when the auth check of the mount completes, either admin is set from
\* a getCurrentUser result whose role, lower-cased, is 'admin', or admin is
\* null and neither slot holds an adminToken; every completion after an
\* await that does not set admin has cleared both slots.
C26_AuthCheckOutcome ==
    [][(authIsLoading /\ ~authIsLoading')
       => /\ \/ /\ admin'.set
                /\ lastAuthOp'.op = "checkAuthSettle"
                /\ HasAdminRole(lastAuthOp'.resp)
             \/ /\ ~admin'.set
                /\ ~HoldsToken(localToken')
                /\ ~HoldsToken(sessionToken')
          /\ (lastAuthOp'.op = "checkAuthSettle" /\ ~admin'.set)
             => (localToken' = Null /\ sessionToken' = Null)]_vars

\* C26's case: the token was valid but the user's role is 'user': the check
\* has ended with no admin and both slots cleared.
C26_Witness ==
    /\ lastAuthOp.op = "checkAuthSettle"
    /\ lastAuthOp.resp.success = "true"
    /\ lastAuthOp.resp.data.present
    /\ lastAuthOp.resp.data.role = "user"
    /\ ~lastAuthOp.resp.content.present
    /\ ~authIsLoading
    /\ ~admin.set
    /\ localToken = Null
    /\ sessionToken = Null

\* The step is a sign-in that stored its token and reloaded the page.
SignInStored == authPc = "done" /\ authPc' = "mounted"

\* C27, first half: AdminSignIn writes an adminToken only when adminLogin
\* returned success with data, a non-empty token and a role that is absent
\* or, lower-cased, 'admin'.
C27_StoresOnlyAccepted ==
    [][SignInStored
       => /\ lastAuthOp'.resp.kind = "returned"
          /\ lastAuthOp'.resp.success = "true"
          /\ lastAuthOp'.resp.data.present
          /\ lastAuthOp'.resp.data.token \in Tokens
          /\ lastAuthOp'.resp.data.role \in {Undefined, "admin", "ADMIN"}
          /\ IF lastAuthOp'.op = "signInRemembered"
             THEN localToken' = lastAuthOp'.resp.data.token /\ UNCHANGED sessionToken
             ELSE sessionToken' = lastAuthOp'.resp.data.token /\ UNCHANGED localToken]_vars

\* C27: AdminSignIn writes an adminToken only after an accepted login, and
\* after such a sign-in the bearer token that request attaches to the calls
\* that follow is the token just issued, whichever slot rememberMe selected.
C27_SignInTokenIsSent ==
    /\ C27_StoresOnlyAccepted
    /\ [][SignInStored
          => AuthorizationHeader(Token(localToken', sessionToken'))
                = "Bearer " \o lastAuthOp'.resp.data.token]_vars

---------------------------------------------------------------------------
(* The claims about the event calls of useAdminEvents *)

\* C28: a successful updateEvent(id) puts the returned event in the place of
\* exactly the entries whose id is id and keeps every other entry, the order
\* and the length; a successful createEvent puts the new event before the
\* list; a createEvent, updateEvent or deleteEvent that fails leaves the list
\* as it was and throws an Error to its caller, the very one it caught when
\* that was an Error.
MutationOps == {"createEvent", "updateEvent", "deleteEvent"}
C28_EventMutations ==
    /\ [][(lastHookOp'.op = "updateEvent" /\ hookResult'.kind = "returned")
          => /\ Len(events') = Len(events)
             /\ \A i \in 1..Len(events) :
                  /\ events[i].id = lastHookOp'.id => events'[i] = hookResult'.event
                  /\ events[i].id # lastHookOp'.id => events'[i] = events[i]]_vars
    /\ [][(lastHookOp'.op = "createEvent" /\ hookResult'.kind = "returned")
          => /\ Len(events') = Len(events) + 1
             /\ Head(events') = hookResult'.event
             /\ Tail(events') = events]_vars
    /\ [][(lastHookOp'.op \in MutationOps /\ hookResult'.kind = "threw")
          => /\ events' = events
             /\ hookResult'.error.isError
             /\ hookResult'.rejection.isError
                  => hookResult'.error = hookResult'.rejection]_vars
    /\ [][lastHookOp'.op \in MutationOps => hookResult'.kind \in {"returned", "threw"}]_vars

\* C28's case: an event with the id 2 was created in front of the catalog,
\* which holds that id too, and the update of id 2 that followed replaced
\* both entries and no other.
C28_Witness ==
    /\ lastHookOp = HookOp("updateEvent", 2)
    /\ hookResult.kind = "returned"
    /\ hookResult.event = [id |-> 4, status |-> "draft"]
    /\ Len(events) = 4
    /\ events[1] = [id |-> 4, status |-> "draft"]
    /\ events[2] = Catalog[1]
    /\ events[3] = [id |-> 4, status |-> "draft"]
    /\ events[4] = Catalog[3]

---------------------------------------------------------------------------
(* The claims about the list getters of adminApi *)

\* The service call of the getter called last threw or gave an envelope
\* whose success is false.
CallFailed ==
    \/ listCall.service.kind = "threw"
    \/ listCall.service.kind = "returned" /\ listCall.service.val.success = "false"

\* The answer carried records neither under data nor under content.
NoPageContent ==
    /\ listCall.service.val.data \notin {"d1", "c1", "cItem"}
    /\ listCall.service.val.content \notin {"d1", "c1", "cItem"}

\* Whatever the service call gave, a getter resolves, and after a thrown
\* error it resolves to the empty list.
C29_GettersResolve ==
    listCall.getter \in Getters
        => /\ listResult.kind \in {"pending", "resolved"}
           /\ listResult.kind = "resolved" /\ (listCall.service.kind = "threw" \/ NoPageContent)
                => listResult.value = <<>>

\* C29: the list getters never reject; for every outcome of the service
\* call they resolve to a list, and the list is empty when the call failed
\* (a thrown error or a failure envelope) or carried no page content.
C29_GettersNeverReject ==
    listCall.getter \in Getters
        => /\ listResult.kind \in {"pending", "resolved"}
           /\ listResult.kind = "resolved" /\ (CallFailed \/ NoPageContent)
                => listResult.value = <<>>

---------------------------------------------------------------------------
(* The claims about the independence of sorting and paging *)

\* C30: handleSort changes the sort column and direction only and leaves
\* currentPage and the search text as they are; the four pagination
\* buttons change currentPage only and leave the sort column, the direction
\* and the search text as they are.
C30_SortAndPagingIndependent ==
    /\ [][lastOp'.op = "handleSort"
          => /\ currentPage' = currentPage
             /\ searchQuery' = searchQuery
             /\ data' = data]_vars
    /\ [][lastOp'.op \in PageOps
          => /\ sortColumn' = sortColumn
             /\ sortDirection' = sortDirection
             /\ searchQuery' = searchQuery
             /\ data' = data]_vars

\* C30's case: a header was clicked on the second page of a searched table
\* that was already sorted; the page and the search text are still there.
C30_Witness ==
    /\ lastOp.op = "handleSort"
    /\ currentPage = 2
    /\ searchQuery # ""
    /\ sortDirection = "desc"

=============================================================================
